---- MODULE Spec2Model ----
(***************************************************************************)
(* A model of pokebase/interface.py: the value converter (_make_obj), the  *)
(* id/name resolver (name_id_convert), the lazily loading resource proxy   *)
(* (NamedAPIResource), the category listing (APIResourceList) and the      *)
(* metadata bag (APIMetadata).                                             *)
(*                                                                         *)
(* Python values are tagged records.  A Python string is a sequence of     *)
(* one-character strings, so that str.split, str() and int() are computed  *)
(* and not assumed.  A raised exception is the value Err(kind); every      *)
(* operator hands an exception of a callee on to its caller.               *)
(***************************************************************************)
EXTENDS Integers, Sequences, FiniteSets, TLC

VARIABLES
  index,     \* what get_resource returns: category -> [results, count]
  payload,   \* what get_data returns when it succeeds (a Python dict)
  self,      \* the NamedAPIResource under observation, None before it exists
  ctor,      \* the arguments its constructor was called with
  out,       \* the last operation: its name, argument and result
  fetches,   \* the calls of get_data made for self
  loads,     \* the runs of _load on self that returned
  touched,   \* some attribute outside the constructor's was accessed on self
  accesses,  \* the attribute accesses made on self
  calls,     \* the calls of name_id_convert made by the resolver's client
  gens       \* the generators taken from the `names` property

vars == <<index, payload, self, ctor, out, fetches, loads, touched, accesses,
          calls, gens>>

(* ------------------------------ bounds -------------------------------- *)

\* the listing of a category holds at most MaxEntries entries
MaxEntries == 2
\* the transport reports a count in 0..MaxCount
MaxCount == 2
\* attribute accesses on one instance
MaxAccess == 3
\* generators taken from one APIResourceList
MaxGens == 2

(* --------------------------- Python values ---------------------------- *)

None == [t |-> "none"]
PyStr(s) == [t |-> "str", s |-> s]
PyInt(n) == [t |-> "int", n |-> n]
PyBool(b) == [t |-> "bool", b |-> b]
PyDict(d) == [t |-> "dict", d |-> d]
PyList(l) == [t |-> "list", l |-> l]
Err(e) == [t |-> "err", e |-> e]
\* the tuple (name, id_)
Pair(name, id_) == [t |-> "tuple", name |-> name, id_ |-> id_]

IsErr(v) == v.t = "err"
\* the rest F of a computation runs on v unless v is a raised exception
Bind(v, F(_)) == IF IsErr(v) THEN v ELSE F(v)
IsStr(v) == v.t = "str"
IsInt(v) == v.t = "int"
IsDict(v) == v.t = "dict"
IsList(v) == v.t = "list"

\* dict.update: the keys of b are added to a, or overwrite them
Update(a, b) ==
  [k \in DOMAIN a \cup DOMAIN b |-> IF k \in DOMAIN b THEN b[k] ELSE a[k]]

\* dict.get(key, default)
Get(d, key, default) == IF key \in DOMAIN d THEN d[key] ELSE default

(* ------------------------------ strings ------------------------------- *)

Digits == <<"0", "1", "2", "3", "4", "5", "6", "7", "8", "9">>

RECURSIVE NatToStr(_)
NatToStr(n) ==
  IF n < 10 THEN <<Digits[n + 1]>>
  ELSE NatToStr(n \div 10) \o <<Digits[(n % 10) + 1]>>

\* str(v) of an int or of None, as characters
ToStr(v) ==
  IF v.t = "none" THEN <<"N", "o", "n", "e">>
  ELSE IF v.n < 0 THEN <<"-">> \o NatToStr(-v.n)
  ELSE NatToStr(v.n)

DigitValue(c) == CHOOSE d \in 0..9 : Digits[d + 1] = c
IsDigit(c) == \E d \in 0..9 : Digits[d + 1] = c

RECURSIVE DigitsToNat(_)
DigitsToNat(s) ==
  IF s = <<>> THEN 0
  ELSE 10 * DigitsToNat(SubSeq(s, 1, Len(s) - 1)) + DigitValue(s[Len(s)])

\* int(s) of a string: an optional sign and decimal digits, ValueError otherwise
\* (surrounding blanks and underscores, which int() also takes, occur in no url)
ToInt(s) ==
  LET signed == s # <<>> /\ s[1] \in {"-", "+"}
      body == IF signed THEN Tail(s) ELSE s
  IN IF body = <<>> \/ \E i \in 1..Len(body) : ~IsDigit(body[i])
     THEN Err("ValueError")
     ELSE PyInt(IF signed /\ s[1] = "-" THEN -DigitsToNat(body)
                ELSE DigitsToNat(body))

\* s.split('/'): the pieces between the slashes, empty pieces included
RECURSIVE Split(_)
Split(s) ==
  IF \A i \in 1..Len(s) : s[i] # "/" THEN <<s>>
  ELSE LET p == CHOOSE i \in 1..Len(s) :
                  s[i] = "/" /\ \A j \in 1..(i - 1) : s[j] # "/"
       IN <<SubSeq(s, 1, p - 1)>> \o Split(SubSeq(s, p + 1, Len(s)))

\* parts[-k]: IndexError when there are fewer than k parts
FromEnd(parts, k) ==
  IF Len(parts) < k THEN Err("IndexError") ELSE PyStr(parts[Len(parts) + 1 - k])

RECURSIVE Join(_)
\* '/'.join(parts)
Join(parts) ==
  IF Len(parts) = 1 THEN parts[1]
  ELSE parts[1] \o <<"/">> \o Join(Tail(parts))

\* pokebase.common.BASE_URL, abbreviated
BASE_URL == <<"h", ":", "/", "/", "p", "/", "v">>

(* --------------------------- the transport ---------------------------- *)

\* the categories the transport serves: "b" for berry, "f" for berry-firmness
Categories == {<<"b">>, <<"f">>}

\* get_resource(name): the listing the transport holds for a category
get_resource(name) ==
  IF name \in DOMAIN index THEN index[name] ELSE Err("TransportError")

\* get_data(resource_type, id_): `answer` is what the transport does with a
\* request for an item, its payload or an exception; it has no item None
get_data(id_, answer) ==
  IF id_ = None THEN Err("TransportError") ELSE answer

(* -------------------------- APIResourceList --------------------------- *)

\* a generator, as the call of a generator function returns it
NewGenerator == [pos |-> 0, yielded |-> <<>>, done |-> FALSE, raised |-> FALSE]

\* APIResourceList.__init__
APIResourceList(name) ==
  Bind(get_resource(name),
       LAMBDA response : [t |-> "index", name |-> name,
                          results |-> response.results,
                          count |-> response.count])

\* APIResourceList.__len__
len_(obj) == PyInt(obj.count)

\* a variant of `names` in which the generators share one iterator, as they
\* would if __init__ stored the generator: a new one goes on where the last is
namesShared(obj, taken) ==
  IF taken = <<>> THEN NewGenerator
  ELSE [NewGenerator EXCEPT !.pos = taken[Len(taken)].pos]

\* the property `names`: each access calls the generator function, whose body
\* has not started; taken are the generators taken before
names(obj, taken) == NewGenerator

\* the value `yield`ed for one entry: the default of dict.get is computed
\* whether or not the entry has a name
NameOrId(result) ==
  Bind(FromEnd(Split(result["url"].s), 2),
       LAMBDA seg : Get(result, "name", seg))

\* the generator g after the value v was asked of it
Yielded(g, v) ==
  IF IsErr(v) THEN [g EXCEPT !.done = TRUE, !.raised = TRUE]
  ELSE [g EXCEPT !.pos = g.pos + 1, !.yielded = Append(g.yielded, v)]

\* next(g) on a generator g of `names`: the loop over obj.__results goes on to
\* the next entry and yields, or ends the generator
names_next(obj, g) ==
  IF g.pos < Len(obj.results)
  THEN Yielded(g, NameOrId(obj.results[g.pos + 1]))
  ELSE [g EXCEPT !.done = TRUE]

(* ------------------------- the id/name resolver ----------------------- *)

RECURSIVE IdToNameLastPiece(_, _, _)
\* a variant of the loop that compares the last piece of the url, not the
\* last but one
IdToNameLastPiece(results, i, id_) ==
  IF i > Len(results) THEN None
  ELSE Bind(FromEnd(Split(results[i]["url"].s), 1),
            LAMBDA seg : IF seg = PyStr(ToStr(id_))
                         THEN Get(results[i], "name", None)
                         ELSE IdToNameLastPiece(results, i + 1, id_))

RECURSIVE IdToNameFrom(_, _, _)
\* the for loop of _convert_id_to_name, from entry i on
IdToNameFrom(results, i, id_) ==
  IF i > Len(results) THEN None
  ELSE Bind(FromEnd(Split(results[i]["url"].s), 2),
            LAMBDA seg : IF seg = PyStr(ToStr(id_))
                         THEN Get(results[i], "name", None)
                         ELSE IdToNameFrom(results, i + 1, id_))

_convert_id_to_name(resource_type, id_) ==
  Bind(APIResourceList(resource_type),
       LAMBDA resource_data : IdToNameFrom(resource_data.results, 1, id_))

RECURSIVE NameToIdPosition(_, _, _)
\* a variant of the loop that returns the position of the entry in the
\* listing, not the id in its url
NameToIdPosition(results, i, name) ==
  IF i > Len(results) THEN None
  ELSE IF Get(results[i], "name", None) = name THEN PyInt(i)
       ELSE NameToIdPosition(results, i + 1, name)

RECURSIVE NameToIdFrom(_, _, _)
\* the for loop of _convert_name_to_id, from entry i on
NameToIdFrom(results, i, name) ==
  IF i > Len(results) THEN None
  ELSE IF Get(results[i], "name", None) = name
       THEN Bind(FromEnd(Split(results[i]["url"].s), 2),
                 LAMBDA seg : ToInt(seg.s))
       ELSE NameToIdFrom(results, i + 1, name)

_convert_name_to_id(resource_type, name) ==
  Bind(APIResourceList(resource_type),
       LAMBDA resource_data : NameToIdFrom(resource_data.results, 1, name))

\* the pair (name, id_), or the exception raised on the way
name_id_convert(resource_type, name_or_id) ==
  IF IsInt(name_or_id)
  THEN Bind(_convert_id_to_name(resource_type, name_or_id),
            LAMBDA name : Pair(name, name_or_id))
  ELSE IF IsStr(name_or_id)
  THEN Bind(_convert_name_to_id(resource_type, name_or_id),
            LAMBDA id_ : Pair(name_or_id, id_))
  ELSE Err("UnboundLocalError")

(* ------------------------- the value converter ------------------------ *)

\* the order in which the keys of a payload are visited (dicts keep the order
\* of the JSON document)
KeyOrder == <<"name", "url", "id", "rate", "slot", "firmness", "flavors">>

\* the exception of the first key, in visiting order, whose conversion raised
FirstErr(f) ==
  LET bad == {i \in 1..Len(KeyOrder) :
                KeyOrder[i] \in DOMAIN f /\ IsErr(f[KeyOrder[i]])}
  IN f[KeyOrder[CHOOSE i \in bad : \A j \in bad : i <= j]]

\* the rest F of a computation runs on the converted fields f unless the
\* conversion of one of them raised
BindAll(f, F(_)) ==
  IF \E k \in DOMAIN f : IsErr(f[k]) THEN FirstErr(f) ELSE F(f)

\* the name under which `self.__loaded` of class NamedAPIResource is stored
LoadedKey == "_NamedAPIResource__loaded"

\* NamedAPIResource.__init__ up to `self.__loaded = False`
InitFields(resource_type, resource_name) ==
  Bind(name_id_convert(resource_type, resource_name),
       LAMBDA r :
         [t |-> "ref",
          d |-> (LoadedKey :> PyBool(FALSE)) @@
                [name |-> r.name,
                 resource_type |-> PyStr(resource_type),
                 id_ |-> r.id_,
                 url |-> PyStr(Join(<<BASE_URL, resource_type,
                                      ToStr(r.id_)>>))]])

RECURSIVE _make_obj(_)
RECURSIVE APIMetadata(_)

_make_obj(d) ==
  IF IsDict(d)
  THEN IF "url" \in DOMAIN d.d
       THEN IF ~IsStr(d.d["url"]) THEN Err("AttributeError")
            ELSE Bind(FromEnd(Split(d.d["url"].s), 2),
                   LAMBDA id_ :
                     Bind(FromEnd(Split(d.d["url"].s), 3),
                          LAMBDA location : InitFields(location.s, id_)))
       ELSE APIMetadata(d)
  ELSE d

\* APIMetadata.__init__
APIMetadata(data) ==
  BindAll([k \in DOMAIN data.d |->
             IF IsDict(data.d[k]) THEN _make_obj(data.d[k]) ELSE data.d[k]],
          LAMBDA f : [t |-> "meta", d |-> f])

RECURSIVE MakeObjEach(_)
\* [_make_obj(i) for i in v]
MakeObjEach(v) ==
  IF v = <<>> THEN PyList(<<>>)
  ELSE Bind(_make_obj(Head(v)),
            LAMBDA h : Bind(MakeObjEach(Tail(v)),
                            LAMBDA r : PyList(<<h>> \o r.l)))

\* a variant of the loop body that leaves lists as they are
LoadValueDictsOnly(v) == IF IsDict(v) THEN _make_obj(v) ELSE v

\* the body of the for loop of NamedAPIResource._load, for one value
LoadValue(v) ==
  IF IsDict(v) THEN _make_obj(v)
  ELSE IF IsList(v) THEN MakeObjEach(v.l)
  ELSE v

\* NamedAPIResource._load on the instance obj, `data` being the transport's
\* answer: the instance afterwards, or the exception
_load(obj, data) ==
  Bind(get_data(obj.d["id_"], data),
       LAMBDA dt :
         BindAll([k \in DOMAIN dt.d |-> LoadValue(dt.d[k])],
                 LAMBDA f : [obj EXCEPT !.d = Update(obj.d, f)]))

SetLoaded(obj) == [obj EXCEPT !.d = Update(obj.d, LoadedKey :> PyBool(TRUE))]

Loaded(obj) == obj.d[LoadedKey].b

\* a variant of the end of __init__ that loads whatever lazy_load says
LoadAlways(obj, lazy_load, data) ==
  IF IsErr(obj) THEN [res |-> obj, fetched |-> FALSE]
  ELSE [res |-> Bind(_load(obj, data), LAMBDA l : SetLoaded(l)),
        fetched |-> TRUE]

\* the end of NamedAPIResource.__init__, obj being the instance so far or the
\* exception of name_id_convert; fetched tells whether get_data was called
LoadUnlessLazy(obj, lazy_load, data) ==
  IF IsErr(obj) \/ lazy_load THEN [res |-> obj, fetched |-> FALSE]
  ELSE [res |-> Bind(_load(obj, data), LAMBDA l : SetLoaded(l)),
        fetched |-> TRUE]

\* NamedAPIResource(resource_type, resource_name, lazy_load): the instance,
\* or the exception
NamedAPIResource(resource_type, resource_name, lazy_load, data) ==
  LoadUnlessLazy(InitFields(resource_type, resource_name), lazy_load, data)

\* the unloaded branch of __getattr__ after `self._load()`, l being the
\* instance as _load left it, or the exception _load raised
AfterLoad(obj, attr, l) ==
  IF IsErr(l)
  THEN [obj |-> obj, res |-> l, fetched |-> TRUE, loaded |-> FALSE]
  ELSE [obj |-> SetLoaded(l), res |-> Get(l.d, attr, Err("AttributeError")),
        fetched |-> TRUE, loaded |-> TRUE]

\* a variant of __getattr__ without the test of the flag
getattr_Reload(obj, attr, data) == AfterLoad(obj, attr, _load(obj, data))

\* a variant of __getattr__ that sets the flag before it loads
getattr_FlagFirst(obj, attr, data) ==
  IF ~Loaded(obj) THEN AfterLoad(SetLoaded(obj), attr, _load(obj, data))
  ELSE [obj |-> obj, res |-> Err("AttributeError"),
        fetched |-> FALSE, loaded |-> FALSE]

\* NamedAPIResource.__getattr__, which Python calls when the usual lookup
\* finds no attribute attr: the instance afterwards and the value or exception
getattr_(obj, attr, data) ==
  IF ~Loaded(obj) THEN AfterLoad(obj, attr, _load(obj, data))
  ELSE [obj |-> obj, res |-> Err("AttributeError"),
        fetched |-> FALSE, loaded |-> FALSE]

\* a variant in which every lookup goes through the hook, as it would had the
\* class defined __getattribute__
AttributeHooked(obj, attr, data) == getattr_(obj, attr, data)

\* obj.attr: the instance's own attributes first, __getattr__ on a miss
Attribute(obj, attr, data) ==
  IF attr \in DOMAIN obj.d
  THEN [obj |-> obj, res |-> obj.d[attr], fetched |-> FALSE, loaded |-> FALSE]
  ELSE getattr_(obj, attr, data)

(* ------------------------------ inputs -------------------------------- *)

SeqsUpTo(S, n) == UNION {[1..k -> S] : k \in 0..n}

\* resource names, and ids of one and of two digits
Names == {<<"a">>, <<"c">>}
Ids == {1, 2, 12}

\* the url the API lists for item id of a category: <base>/<category>/<id>/
UrlOf(cat, id) == Join(<<BASE_URL, cat, NatToStr(id), <<>>>>)

\* a listed entry: a url, and a name unless the category has no names
Named(cat, n, id) == [name |-> PyStr(n), url |-> PyStr(UrlOf(cat, id))]
Unnamed(cat, id) == [url |-> PyStr(UrlOf(cat, id))]

Entries(cat, ids) ==
  {Unnamed(cat, i) : i \in ids} \cup
  {Named(cat, n, i) : n \in Names, i \in ids}

Response(results, count) ==
  [t |-> "response", results |-> results, count |-> count]

\* the arguments a caller resolves or constructs with
Args == {PyInt(i) : i \in Ids} \cup {PyStr(n) : n \in Names}

\* values of a payload field
Ref(cat, id) == PyDict([name |-> PyStr(<<"s">>), url |-> PyStr(UrlOf(cat, id))])
BadRef == PyDict([url |-> PyStr(<<"f", "/", "2">>)])
Meta == PyDict([rate |-> PyInt(1)])
MetaNested ==
  PyDict([slot |-> Meta, firmness |-> Ref(<<"f">>, 1),
          flavors |-> PyList(<<Ref(<<"f">>, 2), PyInt(1)>>)])
MetaBad == PyDict([slot |-> PyInt(1), firmness |-> BadRef])
Scalars == PyList(<<PyInt(1), PyInt(2), PyInt(3)>>)

FirmnessValues ==
  {Ref(<<"f">>, 2), Ref(<<"f">>, 12), BadRef, Meta, MetaNested, MetaBad,
   PyStr(<<"s">>)}
FlavorsValues ==
  {Scalars, PyList(<<Ref(<<"f">>, 1), Meta, PyInt(1)>>),
   PyList(<<PyList(<<Ref(<<"f">>, 1)>>), MetaNested>>),
   PyList(<<Meta, BadRef>>), None}

Payloads ==
  {PyDict([name |-> PyStr(<<"a">>), firmness |-> f, flavors |-> l]) :
     f \in FirmnessValues, l \in FlavorsValues}
  \cup {PyDict([name |-> PyStr(<<"a">>), id |-> PyInt(1)])}

\* the attributes set by NamedAPIResource.__init__
CtorFields == {"name", "resource_type", "id_", "url", LoadedKey}

\* the attributes a caller asks for
Attrs == CtorFields \cup {"id", "firmness", "flavors", "missing"}

\* the transport's answers to a request for an item: the payload, or an
\* exception
GetData == {payload, Err("TransportError")}

Idle == [op |-> "none"]

(* --------------------- the resource proxy: Spec ----------------------- *)

Init ==
  /\ \E b \in {<<Named(<<"b">>, <<"a">>, 1), Named(<<"b">>, <<"c">>, 2)>>,
               <<Named(<<"b">>, <<"a">>, 1), Unnamed(<<"b">>, 2)>>} :
     \E f \in {<<>>, <<Named(<<"f">>, <<"s">>, 1), Named(<<"f">>, <<"h">>, 2)>>} :
       index = [c \in Categories |->
                  IF c = <<"b">> THEN Response(b, Len(b))
                  ELSE Response(f, Len(f))]
  /\ payload \in Payloads
  /\ self = None
  /\ ctor = None
  /\ out = Idle
  /\ fetches = 0
  /\ loads = 0
  /\ touched = FALSE
  /\ accesses = 0
  /\ calls = <<>>
  /\ gens = <<>>

\* what a constructor call that ended with r leaves behind
Constructed(resource_name, r) ==
  /\ self' = IF IsErr(r.res) THEN None ELSE r.res
  /\ out' = [op |-> "construct", arg |-> resource_name, res |-> r.res]
  /\ fetches' = IF r.fetched THEN 1 ELSE 0
  /\ loads' = IF r.fetched /\ ~IsErr(r.res) THEN 1 ELSE 0

\* NamedAPIResource(resource_type, resource_name, lazy_load=lazy_load)
Construct(resource_type, resource_name, lazy_load) ==
  /\ self = None
  /\ out = Idle
  /\ \E data \in GetData :
       Constructed(resource_name,
         NamedAPIResource(resource_type, resource_name, lazy_load, data))
  /\ ctor' = [t |-> "ctor", resource_type |-> resource_type,
              resource_name |-> resource_name, lazy_load |-> lazy_load]
  /\ calls' = <<[arg |-> resource_name,
                 res |-> name_id_convert(resource_type, resource_name)]>>
  /\ UNCHANGED <<index, payload, touched, accesses, gens>>

\* what an attribute access that ended with r leaves behind
Accessed(attr, r) ==
  /\ self' = r.obj
  /\ out' = [op |-> "access", arg |-> attr, res |-> r.res]
  /\ fetches' = IF r.fetched THEN fetches + 1 ELSE fetches
  /\ loads' = IF r.loaded THEN loads + 1 ELSE loads

\* self.attr
Access(attr) ==
  /\ self # None
  /\ accesses < MaxAccess
  /\ \E data \in GetData : Accessed(attr, Attribute(self, attr, data))
  /\ touched' = (touched \/ attr \notin CtorFields)
  /\ accesses' = accesses + 1
  /\ UNCHANGED <<index, payload, ctor, calls, gens>>

\* _make_obj(v) for a field v of the payload
MakeObj ==
  /\ self = None
  /\ out = Idle
  /\ \E k \in DOMAIN payload.d :
       out' = [op |-> "_make_obj", arg |-> payload.d[k],
               res |-> _make_obj(payload.d[k])]
  /\ UNCHANGED <<index, payload, self, ctor, fetches, loads, touched,
                 accesses, calls, gens>>

\* APIMetadata(data) for the payload as data
NewMetadata ==
  /\ self = None
  /\ out = Idle
  /\ out' = [op |-> "APIMetadata", arg |-> payload, res |-> APIMetadata(payload)]
  /\ UNCHANGED <<index, payload, self, ctor, fetches, loads, touched,
                 accesses, calls, gens>>

Next ==
  \/ \E x \in Args : \E lazy_load \in BOOLEAN :
       Construct(<<"b">>, x, lazy_load)
  \/ \E attr \in Attrs : Access(attr)
  \/ MakeObj
  \/ NewMetadata

Spec == Init /\ [][Next]_vars

(* ------------------ claims about the resource proxy ------------------- *)

\* C1: a lazily constructed instance is not loaded when its constructor
\* returns, and is loaded later only if an attribute outside the constructor's
\* has been accessed; an eagerly constructed instance is loaded from the start.
C1_LazyUntilTouched ==
  self # None =>
    /\ (ctor.lazy_load /\ out.op = "construct") => ~Loaded(self)
    /\ (ctor.lazy_load /\ Loaded(self)) => touched
    /\ ~ctor.lazy_load => Loaded(self)

C1_Witness ==
  /\ self # None
  /\ ctor.lazy_load
  /\ Loaded(self)
  /\ touched
  /\ accesses >= 2

\* C2 as stated: get_data is called at most once for an instance, whatever
\* the attribute accesses.
C2_FetchAtMostOnce == fetches <= 1

\* C2, amended: at most one load of an instance completes.  Once the instance
\* is loaded no access calls get_data, and an access to an absent attribute
\* fails with AttributeError at once.  An access to an absent attribute of an
\* unloaded instance calls get_data once; when that load completes the
\* instance is loaded and the access fails with AttributeError if the payload
\* has no such field.
C2_LoadCompletesOnce ==
  [][/\ loads' <= 1
     /\ (self # None /\ Loaded(self)) =>
          /\ fetches' = fetches
          /\ loads' = loads
          /\ (accesses' = accesses + 1 /\ out'.arg \notin DOMAIN self.d) =>
               out'.res = Err("AttributeError")
     /\ (/\ self # None
         /\ ~Loaded(self)
         /\ accesses' = accesses + 1
         /\ out'.arg \notin DOMAIN self.d) =>
          /\ fetches' = fetches + 1
          /\ loads' = loads + 1 =>
               /\ Loaded(self')
               /\ out'.arg \notin DOMAIN payload.d =>
                    out'.res = Err("AttributeError")]_vars

C2_Witness ==
  /\ self # None
  /\ Loaded(self)
  /\ loads = 1
  /\ fetches >= 2
  /\ out.op = "access"
  /\ out.res = Err("AttributeError")

\* C3: an access to an attribute set by the constructor, on a lazily
\* constructed instance that is not loaded, returns the stored value, calls
\* get_data not at all and leaves the instance as it was, flag included.
C3_CtorFieldNoLoad ==
  [][(/\ self # None
      /\ ctor.lazy_load
      /\ ~Loaded(self)
      /\ accesses' = accesses + 1
      /\ out'.arg \in CtorFields) =>
       /\ out'.res = self.d[out'.arg]
       /\ self' = self
       /\ fetches' = fetches
       /\ loads' = loads]_vars

C3_Witness ==
  /\ self # None
  /\ ctor.lazy_load
  /\ ~Loaded(self)
  /\ accesses >= 2
  /\ ~touched
  /\ out.op = "access"
  /\ out.arg = "id_"
  /\ fetches = 0

\* C4: _make_obj of a mapping whose url is <base>/<category>/<id>/ is an
\* unloaded NamedAPIResource of that category and with that id.
C4_ConvertKeepsCategoryAndId ==
  out.op = "_make_obj" =>
    \A c \in Categories, i \in Ids :
      out.arg = Ref(c, i) =>
        /\ out.res.t = "ref"
        /\ out.res.d["resource_type"] = PyStr(c)
        /\ out.res.d["id_"] = PyInt(i)
        /\ ~Loaded(out.res)

\* the names the listing of a category holds
ListedNames(cat) ==
  {index[cat].results[k]["name"] :
     k \in {j \in 1..Len(index[cat].results) :
              "name" \in DOMAIN index[cat].results[j]}}

\* C5: name_id_convert of a string that names no entry of the category raises,
\* so does the constructor that called it, and no instance has None as its id.
C5_UnknownNameFails ==
  /\ \A k \in 1..Len(calls) :
       (IsStr(calls[k].arg) /\ calls[k].arg \notin ListedNames(<<"b">>)) =>
         IsErr(calls[k].res)
  /\ (/\ out.op = "construct"
      /\ IsStr(out.arg)
      /\ out.arg \notin ListedNames(<<"b">>)) =>
       (IsErr(out.res) /\ self = None)
  /\ self # None => self.d["id_"] # None

\* what the claim C8 says _load makes of a payload field
ConvertedDeep(v) ==
  IF IsDict(v) THEN _make_obj(v)
  ELSE IF IsList(v) THEN PyList([i \in 1..Len(v.l) |-> _make_obj(v.l[i])])
  ELSE v

\* what the claim C8 says APIMetadata makes of a field
ConvertedShallow(v) == IF IsDict(v) THEN _make_obj(v) ELSE v

\* C8: a load replaces the mappings of the payload by their conversion and
\* the sequences by the sequence of their elements' conversions, in order;
\* APIMetadata replaces the mappings only and keeps a sequence as given; every
\* other field keeps the raw value.
C8_ConversionDepth ==
  /\ (self # None /\ Loaded(self)) =>
       \A k \in DOMAIN payload.d : self.d[k] = ConvertedDeep(payload.d[k])
  /\ (out.op = "APIMetadata" /\ ~IsErr(out.res)) =>
       /\ DOMAIN out.res.d = DOMAIN payload.d
       /\ \A k \in DOMAIN payload.d :
            out.res.d[k] = ConvertedShallow(payload.d[k])

C8_Witness ==
  /\ self # None
  /\ Loaded(self)
  /\ "flavors" \in DOMAIN payload.d
  /\ IsList(payload.d["flavors"])
  /\ \E i \in 1..Len(payload.d["flavors"].l) :
       /\ IsDict(payload.d["flavors"].l[i])
       /\ self.d["flavors"].l[i].t = "meta"
  /\ \E i \in 1..Len(payload.d["flavors"].l) :
       /\ IsList(payload.d["flavors"].l[i])
       /\ self.d["flavors"].l[i] = payload.d["flavors"].l[i]

\* C10: when the load that an attribute access started fails, get_data or a
\* conversion having raised, the instance is as it was before the access: no
\* field of the payload on it, and not loaded.
C10_FailedLoadLeavesInstance ==
  [][(/\ self # None
      /\ ~Loaded(self)
      /\ accesses' = accesses + 1
      /\ fetches' = fetches + 1
      /\ loads' = loads) =>
       /\ IsErr(out'.res)
       /\ self' = self
       /\ ~Loaded(self')]_vars

C10_Witness ==
  /\ self # None
  /\ ctor.lazy_load
  /\ ~Loaded(self)
  /\ DOMAIN self.d = CtorFields
  /\ out.op = "access"
  /\ out.res = Err("IndexError")
  /\ fetches >= 1
  /\ loads = 0

(* ------------------ the id/name resolver: SpecResolver ---------------- *)

Quiet ==
  /\ self = None
  /\ ctor = None
  /\ out = Idle
  /\ fetches = 0
  /\ loads = 0
  /\ touched = FALSE
  /\ accesses = 0
  /\ calls = <<>>
  /\ gens = <<>>

\* the transport holds any listing of berries of at most MaxEntries entries
InitResolver ==
  /\ \E l \in SeqsUpTo(Entries(<<"b">>, Ids), MaxEntries) :
       index = [c \in Categories |->
                  IF c = <<"b">> THEN Response(l, Len(l))
                  ELSE Response(<<>>, 0)]
  /\ payload = None
  /\ Quiet

\* name_id_convert("b", x)
Resolve(x) ==
  /\ calls = <<>>
  /\ calls' = <<[arg |-> x, res |-> name_id_convert(<<"b">>, x)]>>
  /\ UNCHANGED <<index, payload, self, ctor, out, fetches, loads, touched,
                 accesses, gens>>

\* what the first call did not get as its argument: the id it found for a
\* name, the name it found for an id
Other(call) == IF IsStr(call.arg) THEN call.res.id_ ELSE call.res.name

\* name_id_convert("b", y), y being what the first call found
ResolveBack ==
  /\ Len(calls) = 1
  /\ ~IsErr(calls[1].res)
  /\ Other(calls[1]).t \in {"int", "str"}
  /\ calls' = Append(calls,
                     [arg |-> Other(calls[1]),
                      res |-> name_id_convert(<<"b">>, Other(calls[1]))])
  /\ UNCHANGED <<index, payload, self, ctor, out, fetches, loads, touched,
                 accesses, gens>>

NextResolver ==
  \/ \E x \in Args : Resolve(x)
  \/ ResolveBack

SpecResolver == InitResolver /\ [][NextResolver]_vars

\* the entries of the berry listing
Berries == index[<<"b">>].results

\* the positions of the entries listed under id i
ListedAt(i) ==
  {k \in 1..Len(Berries) : Berries[k]["url"] = PyStr(UrlOf(<<"b">>, i))}

\* the name field of the first entry listed under id i, None when the entry
\* has no name or no entry is listed under i
FirstNameOf(i) ==
  IF ListedAt(i) = {} THEN None
  ELSE Get(Berries[CHOOSE k \in ListedAt(i) : \A j \in ListedAt(i) : k <= j],
           "name", None)

\* C6: name_id_convert of an integer i does not raise and returns (n, i), n
\* being the name of the first entry whose url has i as its last piece but
\* one, and None when there is no such entry.
C6_IdNeverFails ==
  \A k \in 1..Len(calls) :
    IsInt(calls[k].arg) =>
      calls[k].res = Pair(FirstNameOf(calls[k].arg.n), calls[k].arg)

C6_Witness ==
  /\ Len(calls) = 1
  /\ calls[1].arg = PyInt(12)
  /\ Cardinality(ListedAt(12)) = 2
  /\ "name" \in DOMAIN Berries[1]
  /\ "name" \in DOMAIN Berries[2]
  /\ calls[1].res = Pair(Berries[1]["name"], PyInt(12))
  /\ Berries[1]["name"] # Berries[2]["name"]

\* no two entries under one id, no two entries with one name
UniqueIdsAndNames ==
  \A j, k \in 1..Len(Berries) :
    j # k =>
      /\ Berries[j]["url"] # Berries[k]["url"]
      /\ ("name" \in DOMAIN Berries[j] /\ "name" \in DOMAIN Berries[k]) =>
           Berries[j]["name"] # Berries[k]["name"]

\* C7: in a listing of unique ids and unique names, a listed name resolves to
\* (s, i) with i an integer and i resolves to (s, i) again; the name found for
\* a listed id resolves to that id.
C7_RoundTrip ==
  UniqueIdsAndNames =>
    /\ \A k \in 1..Len(calls) :
         (IsStr(calls[k].arg) /\ calls[k].arg \in ListedNames(<<"b">>)) =>
           /\ calls[k].res.t = "tuple"
           /\ calls[k].res.name = calls[k].arg
           /\ IsInt(calls[k].res.id_)
    /\ (Len(calls) = 2 /\ calls[1].arg \in ListedNames(<<"b">>)) =>
         calls[2].res = calls[1].res
    /\ (Len(calls) = 2 /\ IsInt(calls[1].arg)) =>
         calls[2].res = calls[1].res

C7_Witness ==
  /\ UniqueIdsAndNames
  /\ Len(Berries) = 2
  /\ Len(calls) = 2
  /\ calls[1].arg = PyStr(<<"c">>)
  /\ calls[1].res = Pair(PyStr(<<"c">>), PyInt(12))
  /\ calls[2].res = calls[1].res
  /\ Berries[2]["url"] = PyStr(UrlOf(<<"b">>, 12))

(* -------------------- the category listing: SpecIndex ----------------- *)

\* the transport holds a listing of at most MaxEntries entries and reports a
\* count that need not be their number
InitIndex ==
  /\ \E l \in SeqsUpTo(Entries(<<"b">>, {1, 12}), MaxEntries) :
     \E n \in 0..MaxCount :
       index = [c \in Categories |->
                  IF c = <<"b">> THEN Response(l, n) ELSE Response(<<>>, 0)]
  /\ payload = None
  /\ Quiet

\* self = APIResourceList("b")
NewResourceList ==
  /\ self = None
  /\ self' = APIResourceList(<<"b">>)
  /\ UNCHANGED <<index, payload, ctor, out, fetches, loads, touched,
                 accesses, calls, gens>>

\* self.names
TakeNames ==
  /\ self # None
  /\ Len(gens) < MaxGens
  /\ gens' = Append(gens, names(self, gens))
  /\ UNCHANGED <<index, payload, self, ctor, out, fetches, loads, touched,
                 accesses, calls>>

\* next(g), g being the i-th generator taken
NextName(i) ==
  /\ ~gens[i].done
  /\ gens' = [gens EXCEPT ![i] = names_next(self, gens[i])]
  /\ UNCHANGED <<index, payload, self, ctor, out, fetches, loads, touched,
                 accesses, calls>>

\* len(self)
LenOf ==
  /\ self # None
  /\ out = Idle
  /\ out' = [op |-> "len", arg |-> None, res |-> len_(self)]
  /\ UNCHANGED <<index, payload, self, ctor, fetches, loads, touched,
                 accesses, calls, gens>>

NextIndex ==
  \/ NewResourceList
  \/ TakeNames
  \/ \E i \in 1..Len(gens) : NextName(i)
  \/ LenOf

SpecIndex == InitIndex /\ [][NextIndex]_vars

\* the id an entry is listed under
IdOf(e) == CHOOSE i \in Ids : e["url"] = PyStr(UrlOf(<<"b">>, i))

\* what the claim C9 says `names` yields for an entry
NameOrElseId(e) ==
  IF "name" \in DOMAIN e THEN e["name"] ELSE PyStr(NatToStr(IdOf(e)))

\* C9: each generator taken from `names` yields, from the first entry on and
\* in the order of the listing, the name of each entry or else the id in its
\* url, one string an entry, and ends after the last; len() is the count the
\* transport reported.
C9_NamesInListingOrder ==
  /\ \A i \in 1..Len(gens) :
       /\ ~gens[i].raised
       /\ gens[i].pos <= Len(Berries)
       /\ gens[i].yielded = [k \in 1..gens[i].pos |-> NameOrElseId(Berries[k])]
       /\ gens[i].done => gens[i].pos = Len(Berries)
  /\ out.op = "len" => out.res = PyInt(index[<<"b">>].count)

C9_Witness ==
  /\ Len(gens) = 2
  /\ gens[1].done
  /\ gens[2].done
  /\ Len(Berries) = 2
  /\ gens[2].yielded = <<PyStr(<<"1", "2">>), PyStr(<<"c">>)>>
  /\ gens[1].yielded = gens[2].yielded
  /\ out.op = "len"
  /\ out.res = PyInt(0)

====
